---- MODULE Spec2Model ----
(***************************************************************************)
(* RustGrapher: the Barnes-Hut trees (quadtree.rs, qtv.rs, octatree.rs)    *)
(* and the physics simulator (simulator.rs).                               *)
(*                                                                         *)
(* f32 values are modelled as exact rationals <<n, d>> (d > 0, lowest      *)
(* terms), so that 0.25 * width, pos / mass and the comparisons against    *)
(* EPSILON and theta are computed as the code computes them, without the   *)
(* rounding of the last bit.  Vec2 / Vec3 are tuples of rationals.         *)
(***************************************************************************)
EXTENDS Integers, Sequences, FiniteSets, TLC

VARIABLES
    qt,         \* quadtree.rs: the pointer QuadTree, a function path -> node
    qtv,        \* qtv.rs: the arena QuadTreeVec
    ot,         \* octatree.rs: the arena OctaTree
    inserted,   \* the bodies the caller has passed to insert, in order
    nodes,      \* the Vec returned by the last stack call
    query,      \* the arguments of the last stack call
    panicked,   \* TRUE once a panic! has unwound the calling thread
    impl,       \* the tree the caller has constructed
    split       \* quadtree.rs:88-104: the push-down loop of an insert in progress

VARIABLES
    cfg,                    \* the Simulator's options (simulator.rs:24-35)
    rigid_bodies,           \* Arc<RwLock<Vec<RigidBody2D>>>
    springs,                \* Arc<RwLock<Vec<Spring>>>
    simulation_thread_lock, \* who holds the write guard of the step lock
    pc,                     \* where the ticking thread is in simulation_step
    f_vec,                  \* the tick's Arc<Mutex<Vec<Vec2>>>
    f_vec_lock,             \* who holds the mutex of f_vec
    quadtree,               \* the tick's Arc<QuadTree>
    workers,                \* the threads of spawn_physics_thread
    spring_i,               \* the spring loop of compute_spring_forces_edges
    join_i,                 \* the join loop of calculate_forces
    ticks,                  \* simulation_step calls that have returned
    mutations,              \* insert_node / set_node_location_by_index calls
    toggle_sim,             \* renderer.rs: SceneContext::toggle_sim
    sim_toggle,             \* renderer.rs:189: the ticker's copy of toggle_sim
    toggles                 \* presses of the space key

treeVars == <<qt, qtv, ot, inserted, nodes, query, panicked, impl, split>>
simVars == <<cfg, rigid_bodies, springs, simulation_thread_lock, pc, f_vec,
             f_vec_lock, quadtree, workers, spring_i, join_i, ticks, mutations,
             toggle_sim, sim_toggle, toggles>>
vars == <<qt, qtv, ot, inserted, nodes, query, panicked, impl, split,
          cfg, rigid_bodies, springs, simulation_thread_lock, pc, f_vec,
          f_vec_lock, quadtree, workers, spring_i, join_i, ticks, mutations,
          toggle_sim, sim_toggle, toggles>>
rendererVars == <<toggle_sim, sim_toggle, toggles>>

(***************************** bounds **************************************)
MaxBodies == 3      \* insert calls per tree
MaxTicks == 2       \* simulation_step calls
MaxMutations == 1   \* insert_node / set_node_location_by_index calls
MaxToggles == 2     \* presses of the space key
MaxDepth == 5       \* iterations of a push-down loop that are followed

(*************************** f32 as rationals ******************************)
Abs(x) == IF x < 0 THEN -x ELSE x

RECURSIVE GCD(_, _)
GCD(a, b) == IF b = 0 THEN a ELSE GCD(b, a % b)

Rat(n, d) ==
    LET g == GCD(Abs(n), Abs(d))
        s == IF d < 0 THEN -1 ELSE 1
    IN  <<(s * n) \div g, (s * d) \div g>>

R(i) == <<i, 1>>

(* sums, products and comparisons reduce by the common factors first *)
RAdd(a, b) ==
    LET g == GCD(a[2], b[2])
    IN  Rat(a[1] * (b[2] \div g) + b[1] * (a[2] \div g), (a[2] \div g) * b[2])
RNeg(a) == <<-a[1], a[2]>>
RSub(a, b) == RAdd(a, RNeg(b))
RMul(a, b) ==
    LET g1 == GCD(Abs(a[1]), b[2])
        g2 == GCD(Abs(b[1]), a[2])
    IN  Rat((a[1] \div g1) * (b[1] \div g2), (a[2] \div g2) * (b[2] \div g1))
RInv(a) == IF a[1] < 0 THEN <<-a[2], -a[1]>> ELSE <<a[2], a[1]>>
RDiv(a, b) == RMul(a, RInv(b))
RECURSIVE QuotLt(_, _, _, _)
(* an / ad < bn / bd for ad, bd > 0, by whole parts and then the inverted   *)
(* fractional parts, so that no product is formed                          *)
QuotLt(an, ad, bn, bd) ==
    LET qa == an \div ad
        qb == bn \div bd
        ra == an % ad
        rb == bn % bd
    IN  IF qa # qb THEN qa < qb
        ELSE IF rb = 0 THEN FALSE
        ELSE IF ra = 0 THEN TRUE
        ELSE QuotLt(bd, rb, ad, ra)
RLt(a, b) == QuotLt(a[1], a[2], b[1], b[2])
RLe(a, b) == ~RLt(b, a)
RMax(a, b) == IF RLt(a, b) THEN b ELSE a
RAbs(a) == <<Abs(a[1]), a[2]>>

(* glam Vec2 / Vec3 *)
VAdd(a, b) == [i \in DOMAIN a |-> RAdd(a[i], b[i])]
VSub(a, b) == [i \in DOMAIN a |-> RSub(a[i], b[i])]
VScale(v, r) == [i \in DOMAIN v |-> RMul(v[i], r)]
VDiv(v, r) == [i \in DOMAIN v |-> RDiv(v[i], r)]
V2(x, y) == <<R(x), R(y)>>
V3(x, y, z) == <<R(x), R(y), R(z)>>
ZERO2 == V2(0, 0)
ZERO3 == V3(0, 0, 0)

RECURSIVE RSum(_)
RSum(s) == IF s = <<>> THEN R(0) ELSE RAdd(Head(s), RSum(Tail(s)))

length_squared(v) == RSum([i \in DOMAIN v |-> RMul(v[i], v[i])])
distance_squared(a, b) == length_squared(VSub(a, b))

None == "None"

(* const EPSILON: f32 = 1e-3; a.distance(b) < EPSILON is compared on squares *)
EPSILON == Rat(1, 1000)
EPSILON_SQ == RMul(EPSILON, EPSILON)

(************************ quadtree.rs: BoundingBox2D ***********************)
BoundingBox2D_new(center, width, height) ==
    [center |-> center, width |-> width, height |-> height]

(* section with the x and y bits swapped: a slip the containment rules out *)
section_swapped(bb, loc) ==
    (IF RLt(bb.center[2], loc[2]) THEN 1 ELSE 0)
  + (IF RLt(bb.center[1], loc[1]) THEN 2 ELSE 0)

section(bb, loc) ==
    (IF RLt(bb.center[2], loc[2]) THEN 2 ELSE 0)
  + (IF RLt(bb.center[1], loc[1]) THEN 1 ELSE 0)

(* a subdivision that shifts the center by half the extent *)
sub_quadrant_half_shift(bb, sec) ==
    LET half == Rat(1, 2)
        sx == IF sec % 2 > 0
              THEN RAdd(bb.center[1], RMul(half, bb.width))
              ELSE RSub(bb.center[1], RMul(half, bb.width))
        sy == IF (sec \div 2) % 2 > 0
              THEN RAdd(bb.center[2], RMul(half, bb.height))
              ELSE RSub(bb.center[2], RMul(half, bb.height))
    IN  [center |-> <<sx, sy>>,
         width |-> RMul(bb.width, half),
         height |-> RMul(bb.height, half)]

sub_quadrant(bb, sec) ==
    LET quarter == Rat(1, 4)
        half == Rat(1, 2)
        sx == IF sec % 2 > 0
              THEN RAdd(bb.center[1], RMul(quarter, bb.width))
              ELSE RSub(bb.center[1], RMul(quarter, bb.width))
        sy == IF (sec \div 2) % 2 > 0
              THEN RAdd(bb.center[2], RMul(quarter, bb.height))
              ELSE RSub(bb.center[2], RMul(quarter, bb.height))
    IN  [center |-> <<sx, sy>>,
         width |-> RMul(bb.width, half),
         height |-> RMul(bb.height, half)]

(* |p - center| <= extent / 2 on every axis *)
Contains2D(bb, p) ==
    /\ RLe(RMul(R(2), RAbs(RSub(p[1], bb.center[1]))), bb.width)
    /\ RLe(RMul(R(2), RAbs(RSub(p[2], bb.center[2]))), bb.height)

(************************** quadtree.rs: QuadTree **************************)
(* A QuadTree value is a function from child-slot paths to nodes: the root *)
(* is <<>>, and children[q] of the node at p is Some iff Append(p, q) is   *)
(* in the domain.                                                          *)
QuadTree_new(boundary) ==
    [p \in {<<>>} |->
        [data |-> None, boundary |-> boundary, mass |-> R(0), position |-> ZERO2]]

new_leaf(data, position, mass, boundary) ==
    [data |-> data, boundary |-> boundary, mass |-> mass, position |-> position]

is_leaf(t, p) == \A q \in 0..3 : Append(p, q) \notin DOMAIN t

update_mass(t, p, position, mass) ==
    [t EXCEPT ![p].position = VAdd(@, VScale(position, mass)),
              ![p].mass = RAdd(@, mass)]

IsPrefix(p, x) == Len(p) <= Len(x) /\ SubSeq(x, 1, Len(p)) = p

(* a store into a slot that drops the other slots of the parent as well *)
set_only_child(t, p, q, node) ==
    LET c == Append(p, q)
        keep == {x \in DOMAIN t : ~(IsPrefix(p, x) /\ x # p)}
    IN  [x \in keep \cup {c} |-> IF x = c THEN node ELSE t[x]]

(* parent.children[q] = Some(node): the slot's old subtree is dropped *)
set_child(t, p, q, node) ==
    LET c == Append(p, q)
        keep == {x \in DOMAIN t : ~IsPrefix(c, x)}
    IN  [x \in keep \cup {c} |-> IF x = c THEN node ELSE t[x]]

(* lines 57-64: search the lowest parent *)
RECURSIVE search_parent(_, _, _, _)
search_parent(t, parent, position, mass) ==
    IF is_leaf(t, parent) THEN [t |-> t, parent |-> parent]
    ELSE LET quadrant == section(t[parent].boundary, position) IN
         IF Append(parent, quadrant) \notin DOMAIN t
         THEN [t |-> t, parent |-> parent]
         ELSE search_parent(update_mass(t, parent, position, mass),
                            Append(parent, quadrant), position, mass)

(* lines 88-104: while quadrant == leaf_quadrant *)
RECURSIVE push_down(_, _, _, _, _, _)
push_down(t, parent, position, l_pos, leaf_position, leaf_mass) ==
    LET quadrant == section(t[parent].boundary, position)
        leaf_quadrant == section(t[parent].boundary, l_pos)
        leaf_new_bb == sub_quadrant(t[parent].boundary, leaf_quadrant)
    IN  IF quadrant = leaf_quadrant
        THEN push_down(set_child(t, parent, leaf_quadrant,
                                 new_leaf(None, leaf_position, leaf_mass, leaf_new_bb)),
                       Append(parent, leaf_quadrant),
                       position, l_pos, leaf_position, leaf_mass)
        ELSE [t |-> t, parent |-> parent]

QuadTree_insert(t, data, position, mass) ==
    IF t[<<>>].mass = R(0)
    THEN [t EXCEPT ![<<>>].mass = mass,
                   ![<<>>].position = VScale(position, mass),
                   ![<<>>].data = data]
    ELSE
    LET s == search_parent(t, <<>>, position, mass)
        parent == s.parent
        quadrant == section(s.t[parent].boundary, position)
        new_bb == sub_quadrant(s.t[parent].boundary, quadrant)
    IN  IF is_leaf(s.t, parent)
        THEN LET leaf_position == s.t[parent].position
                 leaf_mass == s.t[parent].mass
                 leaf_data == s.t[parent].data
                 l_pos == VDiv(leaf_position, leaf_mass)
                 t2 == update_mass([s.t EXCEPT ![parent].data = None],
                                   parent, position, mass)
             IN  IF RLt(distance_squared(position, l_pos), EPSILON_SQ)
                 THEN t2
                 ELSE LET pd == push_down(t2, parent, position, l_pos,
                                          leaf_position, leaf_mass)
                          bb == pd.t[pd.parent].boundary
                          lq == section(bb, l_pos)
                          nq == section(bb, position)
                          t3 == set_child(pd.t, pd.parent, lq,
                                    new_leaf(leaf_data, leaf_position, leaf_mass,
                                             sub_quadrant(bb, lq)))
                      IN  set_child(t3, pd.parent, nq,
                              new_leaf(data, VScale(position, mass), mass,
                                       sub_quadrant(bb, nq)))
        ELSE set_child(s.t, parent, quadrant,
                 new_leaf(data, VScale(position, mass), mass, new_bb))

(* QuadTree::position(): self.position / self.mass (mass > 0) *)
QuadTree_position(n) == VDiv(n.position, n.mass)

(* the comparison turned round, s / dist > theta: a slip theta = 0 exposes    *)
RatioAboveTheta(s, dist_sq, theta) ==
    /\ dist_sq # R(0)
    /\ \/ ~RLt(R(0), theta)
       \/ RLt(dist_sq, RDiv(RMul(s, s), RMul(theta, theta)))

(* s / dist < theta for s >= 0, dist >= 0: false when dist = 0 (inf or NaN) *)
(* or theta <= 0; otherwise s / theta < dist, compared on squares.          *)
RatioBelowTheta(s, dist_sq, theta) ==
    /\ dist_sq # R(0)
    /\ RLt(R(0), theta)
    /\ RLt(RDiv(RMul(s, s), RMul(theta, theta)), dist_sq)

Children(t, p) == {q \in 0..3 : Append(p, q) \in DOMAIN t}

RECURSIVE PushChildren(_, _, _, _)
PushChildren(t, p, q, stack) ==
    IF q > 3 THEN stack
    ELSE PushChildren(t, p, q + 1,
             IF Append(p, q) \in DOMAIN t THEN Append(stack, Append(p, q)) ELSE stack)

(* lines 121-146; the empty root has mass 0, so 0/0 = NaN fails dist > EPSILON *)
RECURSIVE stack_loop(_, _, _, _, _)
stack_loop(t, stack, out, position, theta) ==
    IF stack = <<>> THEN out
    ELSE
    LET parent == stack[Len(stack)]
        rest == SubSeq(stack, 1, Len(stack) - 1)
        n == t[parent]
        s == RMax(n.boundary.width, n.boundary.height)
        hasMass == n.mass # R(0)
        dist_sq == IF hasMass
                   THEN distance_squared(QuadTree_position(n), position)
                   ELSE R(0)
        emit == /\ hasMass
                /\ (RatioBelowTheta(s, dist_sq, theta) \/ is_leaf(t, parent))
                /\ RLt(EPSILON_SQ, dist_sq)
    IN  IF emit
        THEN stack_loop(t, rest, Append(out, parent), position, theta)
        ELSE stack_loop(t, PushChildren(t, parent, 0, rest), out, position, theta)

QuadTree_stack(t, position, theta) == stack_loop(t, <<<<>>>>, <<>>, position, theta)

(***************************** qtv.rs: QuadTreeVec *************************)
(* The arena is a sequence; the code's index i is element i + 1.  u32::MAX *)
(* marks an empty child slot: any value that is no arena index.            *)
U32_MAX == -1

QuadTreeVec_new(boundary) == [children |-> <<>>, boundary |-> boundary, root |-> 0]

Node_new_leaf(pos, mass) == [kind |-> "Leaf", mass |-> mass, pos |-> pos]

Node_new_root(pos, mass, indices) ==
    [kind |-> "Root", indices |-> indices, mass |-> mass, pos |-> VScale(pos, mass)]

Node_get_center(n) == IF n.kind = "Root" THEN VDiv(n.pos, n.mass) ELSE n.pos

(* qtv.rs lines 50-66: walk down the Root entries *)
RECURSIVE qtv_descend(_, _, _, _, _, _)
qtv_descend(children, bb, root_index, new_index, new_pos, new_mass) ==
    LET n == children[root_index + 1] IN
    IF n.kind # "Root"
    THEN [children |-> children, bb |-> bb, root_index |-> root_index]
    ELSE LET sec == section(bb, new_pos)
             upd == [n EXCEPT !.mass = RAdd(@, new_mass),
                              !.pos = VAdd(@, VScale(new_pos, new_mass))]
         IN  IF n.indices[sec + 1] = U32_MAX
             THEN [children |-> [children EXCEPT ![root_index + 1] =
                                    [upd EXCEPT !.indices[sec + 1] = new_index]],
                   bb |-> bb, root_index |-> root_index]
             ELSE qtv_descend([children EXCEPT ![root_index + 1] = upd],
                              sub_quadrant(bb, sec), n.indices[sec + 1],
                              new_index, new_pos, new_mass)

(* qtv.rs lines 79-109: create new roots until the two leaves part *)
RECURSIVE qtv_split(_, _, _, _, _, _)
qtv_split(children, bb, root_index, new_index, new_pos, new_mass) ==
    LET n == children[root_index + 1] IN
    IF n.kind # "Leaf" THEN children
    ELSE LET pushed == Append(children, Node_new_leaf(n.pos, n.mass))
             old_index == Len(pushed) - 1
             old_sec == section(bb, n.pos)
             ind == [i \in 1..4 |-> IF i = old_sec + 1 THEN old_index ELSE U32_MAX]
             sec == section(bb, new_pos)
             fin == ind[sec + 1] = U32_MAX
             ind2 == IF fin THEN [ind EXCEPT ![sec + 1] = new_index] ELSE ind
             new_root == Node_new_root(VAdd(n.pos, new_pos), RAdd(n.mass, new_mass), ind2)
             placed == [pushed EXCEPT ![root_index + 1] = new_root]
         IN  IF fin THEN placed
             ELSE qtv_split(placed, sub_quadrant(bb, sec), old_index,
                            new_index, new_pos, new_mass)

(* an insert whose merge overwrites the mass of the leaf with the new mass *)
QuadTreeVec_insert_overwriting(t, new_pos, new_mass) ==
    LET pushed == Append(t.children, Node_new_leaf(new_pos, new_mass))
        new_index == Len(pushed) - 1
    IN  IF Len(pushed) = 1
        THEN [t EXCEPT !.children = Append(pushed, Node_new_leaf(new_pos, new_mass))]
        ELSE
        LET d == qtv_descend(pushed, t.boundary, t.root, new_index, new_pos, new_mass)
            n == d.children[d.root_index + 1]
        IN  IF n.kind = "Leaf" /\ RLt(distance_squared(n.pos, new_pos), EPSILON_SQ)
            THEN [t EXCEPT !.children =
                     [d.children EXCEPT ![d.root_index + 1] =
                         Node_new_leaf(n.pos, new_mass)]]
            ELSE [t EXCEPT !.children =
                     qtv_split(d.children, d.bb, d.root_index,
                               new_index, new_pos, new_mass)]

QuadTreeVec_insert(t, new_pos, new_mass) ==
    LET pushed == Append(t.children, Node_new_leaf(new_pos, new_mass))
        new_index == Len(pushed) - 1
    IN  IF Len(pushed) = 1
        THEN [t EXCEPT !.children = Append(pushed, Node_new_leaf(new_pos, new_mass))]
        ELSE
        LET d == qtv_descend(pushed, t.boundary, t.root, new_index, new_pos, new_mass)
            n == d.children[d.root_index + 1]
        IN  IF n.kind = "Leaf" /\ RLt(distance_squared(n.pos, new_pos), EPSILON_SQ)
            THEN [t EXCEPT !.children =
                     [d.children EXCEPT ![d.root_index + 1] =
                         Node_new_leaf(n.pos, RAdd(n.mass, new_mass))]]
            ELSE [t EXCEPT !.children =
                     qtv_split(d.children, d.bb, d.root_index,
                               new_index, new_pos, new_mass)]

(* a push of the child indices that pushes the first child twice *)
RECURSIVE PushIndicesTwice(_, _, _)
PushIndicesTwice(indices, i, stack) ==
    IF i > Len(indices) THEN stack
    ELSE PushIndicesTwice(indices, i + 1,
             IF indices[i] # U32_MAX
             THEN IF stack = <<>> THEN <<indices[i], indices[i]>>
                  ELSE Append(stack, indices[i])
             ELSE stack)

RECURSIVE PushIndices(_, _, _)
PushIndices(indices, i, stack) ==
    IF i > Len(indices) THEN stack
    ELSE PushIndices(indices, i + 1,
             IF indices[i] # U32_MAX THEN Append(stack, indices[i]) ELSE stack)

(* qtv.rs lines 123-151: one level is popped from the back, s halves per level *)
RECURSIVE qtv_stack_loop(_, _, _, _, _, _, _)
qtv_stack_loop(children, stack, new_stack, out, s, position, theta) ==
    IF stack = <<>>
    THEN IF new_stack = <<>> THEN out
         ELSE qtv_stack_loop(children, new_stack, <<>>, out,
                             RMul(s, Rat(1, 2)), position, theta)
    ELSE
    LET idx == stack[Len(stack)]
        rest == SubSeq(stack, 1, Len(stack) - 1)
        parent == children[idx + 1]
    IN  IF parent.kind = "Root"
        THEN IF RatioBelowTheta(s, distance_squared(Node_get_center(parent), position), theta)
             THEN qtv_stack_loop(children, rest, new_stack, Append(out, idx),
                                 s, position, theta)
             ELSE qtv_stack_loop(children, rest, PushIndices(parent.indices, 1, new_stack),
                                 out, s, position, theta)
        ELSE qtv_stack_loop(children, rest, new_stack, Append(out, idx),
                            s, position, theta)

QuadTreeVec_stack(t, position, theta) ==
    IF t.children = <<>> THEN <<>>
    ELSE qtv_stack_loop(t.children, <<0>>, <<>>, <<>>,
                        RMax(t.boundary.width, t.boundary.height), position, theta)

(*********************** octatree.rs: BoundingBox3D ************************)
BoundingBox3D_new(center, width, height, depth) ==
    [center |-> center, width |-> width, height |-> height, depth |-> depth]

section3D(bb, loc) ==
    (IF RLt(bb.center[3], loc[3]) THEN 4 ELSE 0)
  + (IF RLt(bb.center[2], loc[2]) THEN 2 ELSE 0)
  + (IF RLt(bb.center[1], loc[1]) THEN 1 ELSE 0)

sub_quadrant3D(bb, sec) ==
    LET quarter == Rat(1, 4)
        half == Rat(1, 2)
        sx == IF sec % 2 > 0
              THEN RAdd(bb.center[1], RMul(quarter, bb.width))
              ELSE RSub(bb.center[1], RMul(quarter, bb.width))
        sy == IF (sec \div 2) % 2 > 0
              THEN RAdd(bb.center[2], RMul(quarter, bb.height))
              ELSE RSub(bb.center[2], RMul(quarter, bb.height))
        sz == IF (sec \div 4) % 2 > 0
              THEN RAdd(bb.center[3], RMul(quarter, bb.depth))
              ELSE RSub(bb.center[3], RMul(quarter, bb.depth))
    IN  [center |-> <<sx, sy, sz>>,
         width |-> RMul(bb.width, half),
         height |-> RMul(bb.height, half),
         depth |-> RMul(bb.depth, half)]

Contains3D(bb, p) ==
    /\ RLe(RMul(R(2), RAbs(RSub(p[1], bb.center[1]))), bb.width)
    /\ RLe(RMul(R(2), RAbs(RSub(p[2], bb.center[2]))), bb.height)
    /\ RLe(RMul(R(2), RAbs(RSub(p[3], bb.center[3]))), bb.depth)

(*************************** octatree.rs: OctaTree *************************)
OctaTree_new(boundary) == [children |-> <<>>, boundary |-> boundary, root |-> 0]

Node3D_new_leaf(pos, mass) == [kind |-> "Leaf", mass |-> mass, pos |-> pos]

(* a Root that multiplies the position sum it is given by the mass *)
Node3D_new_root_scaled(pos, mass, indices) ==
    [kind |-> "Root", indices |-> indices, mass |-> mass, pos |-> VScale(pos, mass)]

Node3D_new_root(pos, mass, indices) ==
    [kind |-> "Root", indices |-> indices, mass |-> mass, pos |-> pos]

Node3D_position(n) == IF n.kind = "Root" THEN VDiv(n.pos, n.mass) ELSE n.pos

Node3D_mass(n) == n.mass

(* octatree.rs lines 56-72 *)
RECURSIVE ot_descend(_, _, _, _, _, _)
ot_descend(children, bb, root_index, new_index, new_pos, new_mass) ==
    LET n == children[root_index + 1] IN
    IF n.kind # "Root"
    THEN [children |-> children, bb |-> bb, root_index |-> root_index]
    ELSE LET sec == section3D(bb, new_pos)
             upd == [n EXCEPT !.mass = RAdd(@, new_mass),
                              !.pos = VAdd(@, VScale(new_pos, new_mass))]
         IN  IF n.indices[sec + 1] = U32_MAX
             THEN [children |-> [children EXCEPT ![root_index + 1] =
                                    [upd EXCEPT !.indices[sec + 1] = new_index]],
                   bb |-> bb, root_index |-> root_index]
             ELSE ot_descend([children EXCEPT ![root_index + 1] = upd],
                             sub_quadrant3D(bb, sec), n.indices[sec + 1],
                             new_index, new_pos, new_mass)

(* octatree.rs lines 85-124 *)
RECURSIVE ot_split(_, _, _, _, _, _)
ot_split(children, bb, root_index, new_index, new_pos, new_mass) ==
    LET n == children[root_index + 1] IN
    IF n.kind # "Leaf" THEN children
    ELSE LET pushed == Append(children, Node3D_new_leaf(n.pos, n.mass))
             old_index == Len(pushed) - 1
             old_sec == section3D(bb, n.pos)
             ind == [i \in 1..8 |-> IF i = old_sec + 1 THEN old_index ELSE U32_MAX]
             sec == section3D(bb, new_pos)
             fin == ind[sec + 1] = U32_MAX
             ind2 == IF fin THEN [ind EXCEPT ![sec + 1] = new_index] ELSE ind
             new_root == Node3D_new_root(
                             VAdd(VScale(n.pos, n.mass), VScale(new_pos, new_mass)),
                             RAdd(n.mass, new_mass), ind2)
             placed == [pushed EXCEPT ![root_index + 1] = new_root]
         IN  IF fin THEN placed
             ELSE ot_split(placed, sub_quadrant3D(bb, sec), old_index,
                           new_index, new_pos, new_mass)

OctaTree_insert(t, new_pos, new_mass) ==
    LET pushed == Append(t.children, Node3D_new_leaf(new_pos, new_mass))
        new_index == Len(pushed) - 1
    IN  IF Len(pushed) = 1
        THEN [t EXCEPT !.children = pushed]
        ELSE
        LET d == ot_descend(pushed, t.boundary, t.root, new_index, new_pos, new_mass)
            n == d.children[d.root_index + 1]
        IN  IF n.kind = "Leaf" /\ RLt(distance_squared(n.pos, new_pos), EPSILON_SQ)
            THEN [t EXCEPT !.children =
                     [d.children EXCEPT ![d.root_index + 1] =
                         Node3D_new_leaf(n.pos, RAdd(n.mass, new_mass))]]
            ELSE [t EXCEPT !.children =
                     ot_split(d.children, d.bb, d.root_index,
                              new_index, new_pos, new_mass)]

(* octatree.rs lines 143-177: one level is walked front to back *)
RECURSIVE ot_stack_loop(_, _, _, _, _, _, _)
ot_stack_loop(children, stack, new_stack, out, s, position, theta) ==
    IF stack = <<>>
    THEN IF new_stack = <<>> THEN out
         ELSE ot_stack_loop(children, new_stack, <<>>, out,
                            RMul(s, Rat(1, 2)), position, theta)
    ELSE
    LET idx == Head(stack)
        rest == Tail(stack)
        parent == children[idx + 1]
    IN  IF parent.kind = "Root"
        THEN IF RatioBelowTheta(s, distance_squared(Node3D_position(parent), position), theta)
             THEN ot_stack_loop(children, rest, new_stack, Append(out, idx),
                                s, position, theta)
             ELSE ot_stack_loop(children, rest, PushIndices(parent.indices, 1, new_stack),
                                out, s, position, theta)
        ELSE ot_stack_loop(children, rest, new_stack, Append(out, idx),
                           s, position, theta)

OctaTree_stack(t, position, theta) ==
    IF t.children = <<>> THEN <<>>
    ELSE ot_stack_loop(t.children, <<0>>, <<>>, <<>>,
                       RMax(RMax(t.boundary.width, t.boundary.height), t.boundary.depth),
                       position, theta)

(*************************** inputs of the trees ***************************)
(* Coordinates are given in half-thousandths, so that EPSILON is 2 steps:  *)
(* the root box is 0.016 wide around the origin.                           *)
P2(x, y) == <<Rat(x, 2000), Rat(y, 2000)>>
P3(x, y, z) == <<Rat(x, 2000), Rat(y, 2000), Rat(z, 2000)>>

RootBox2D == BoundingBox2D_new(ZERO2, Rat(32, 2000), Rat(32, 2000))
RootBox3D == BoundingBox3D_new(ZERO3, Rat(32, 2000), Rat(32, 2000), Rat(32, 2000))

(* (-4,-4) and (4,4) lie in different root quadrants; (4,4) and (2,2) stay *)
(* together for three levels; (5,4) is within EPSILON of (4,4), and ends   *)
(* in a leaf of its own once (2,2) has split the box around (4,4).         *)
Points2D == { P2(-4, -4), P2(4, 4), P2(2, 2), P2(5, 4) }

Points3D == { P3(-4, -4, -4), P3(4, 4, 4), P3(2, 2, 2), P3(5, 4, 4) }

(* the masses a caller gives a body at a position: both at (4,4), so that *)
(* a leaf merges bodies of equal and of different mass                      *)
MassesAt(position) ==
    IF position[1] = Rat(4, 2000) THEN {R(1), R(2)}
    ELSE IF position[1] = Rat(2, 2000) THEN {R(2)}
    ELSE {R(1)}
Thetas == {R(0), Rat(3, 4), R(1)}
NoQuery == [position |-> None, theta |-> None]
NoSplit == [pc |-> "none", boundary |-> None, position |-> None, l_pos |-> None,
            depth |-> 0]

(************************ properties.rs, simulator.rs ***********************)
(* Bodies are placed on the x axis, where Vec2::length is exact.            *)
length(v) ==
    IF v[2] = R(0) THEN RAbs(v[1])
    ELSE IF v[1] = R(0) THEN RAbs(v[2])
    ELSE CHOOSE r \in {} : TRUE

normalize_or_zero(v) ==
    IF length(v) = R(0) THEN ZERO2 ELSE VDiv(v, length(v))

RClamp(x, lo, hi) == IF RLt(x, lo) THEN lo ELSE IF RLt(hi, x) THEN hi ELSE x

RigidBody2D_new(position, mass) ==
    [position |-> position, velocity |-> ZERO2, mass |-> mass, fixed |-> FALSE]

(* RigidBody2D::total_velocity is not among the sources: the speed |v| *)
total_velocity(rb) == length(rb.velocity)

compute_spring_force(c, n1, n2) ==
    LET direction_vec == VSub(n2.position, n1.position)
        force_magnitude == RMul(c.spring_stiffness,
                                RSub(length(direction_vec), c.spring_neutral_length))
    IN  VScale(normalize_or_zero(direction_vec), RNeg(force_magnitude))

repel_force(repel_force_const, n1, n2) ==
    LET dir_vec == VSub(n2.position, n1.position) IN
    IF length_squared(dir_vec) = R(0) THEN ZERO2
    ELSE LET f == RDiv(RMul(RNeg(repel_force_const), RAbs(RMul(n1.mass, n2.mass))),
                       length_squared(dir_vec))
             force == VScale(normalize_or_zero(dir_vec), f)
         IN  [i \in DOMAIN force |-> RClamp(force[i], R(-100000), R(100000))]

compute_center_gravity(gravity_force, node) ==
    VScale(VScale(node.position, RNeg(node.mass)), gravity_force)

RMin(a, b) == IF RLt(b, a) THEN b ELSE a

RECURSIVE FoldMin(_, _, _)
FoldMin(rbs, k, acc) ==
    IF k > Len(rbs) THEN acc
    ELSE FoldMin(rbs, k + 1, [i \in 1..2 |-> RMin(acc[i], rbs[k].position[i])])

RECURSIVE FoldMax(_, _, _)
FoldMax(rbs, k, acc) ==
    IF k > Len(rbs) THEN acc
    ELSE FoldMax(rbs, k + 1, [i \in 1..2 |-> RMax(acc[i], rbs[k].position[i])])

RECURSIVE InsertAll(_, _, _)
InsertAll(t, rbs, k) ==
    IF k > Len(rbs) THEN t
    ELSE InsertAll(QuadTree_insert(t, None, rbs[k].position, rbs[k].mass), rbs, k + 1)

(* build_quadtree, for at least one body (the fold from +-INFINITY starts  *)
(* at the first body); with_capacity only reserves storage                 *)
build_quadtree(rbs) ==
    LET min == FoldMin(rbs, 1, rbs[1].position)
        max == FoldMax(rbs, 1, rbs[1].position)
        dir == VSub(max, min)
        boundary == BoundingBox2D_new(VAdd(VDiv(dir, R(2)), min), dir[1], dir[2])
    IN  InsertAll(QuadTree_new(boundary), rbs, 1)

(* build_property_vec: one body of mass 1 per node at a random position,   *)
(* one spring per edge; edges are pairs of node indices                    *)
RECURSIVE EdgeMass(_, _, _)
EdgeMass(rbs, edges, k) ==
    IF k > Len(edges) THEN rbs
    ELSE EdgeMass([rbs EXCEPT ![edges[k][2] + 1].mass = RAdd(@, R(1)),
                              ![edges[k][1] + 1].mass = RAdd(@, R(1))],
                  edges, k + 1)

build_property_vec(positions, edges, edge_based_mass) ==
    LET vec_rb == [i \in 1..Len(positions) |-> RigidBody2D_new(positions[i], R(1))]
    IN  [rigid_bodies |-> IF edge_based_mass THEN EdgeMass(vec_rb, edges, 1) ELSE vec_rb,
         springs |-> [k \in 1..Len(edges) |->
                        [rb1 |-> edges[k][1], rb2 |-> edges[k][2],
                         spring_neutral_len |-> R(2), spring_stiffness |-> R(1)]]]

Min(a, b) == IF a < b THEN a ELSE b
Zeros(n) == [i \in 1..n |-> ZERO2]

(* the slice of worker thread (0-based) in calculate_forces, lines 96-105 *)
SliceStart(thread, node_count, thread_count) == thread * (node_count \div thread_count)
(* an end index that leaves the remainder of the division out *)
SliceEndNoExtra(thread, node_count, thread_count) ==
    (thread + 1) * (node_count \div thread_count)

SliceEnd(thread, node_count, thread_count) ==
    (thread + 1) * (node_count \div thread_count)
  + (IF thread = thread_count - 1 THEN node_count % thread_count ELSE 0)

(* spawn_physics_thread, lines 144-171: one pass of the loop for body i *)
RECURSIVE SumRepel(_, _, _, _, _)
SumRepel(c, rb, t, approx, k) ==
    IF k > Len(approx) THEN ZERO2
    ELSE VAdd(repel_force(c.repel_force_const, rb,
                  RigidBody2D_new(QuadTree_position(t[approx[k]]), t[approx[k]].mass)),
              SumRepel(c, rb, t, approx, k + 1))

BodyForce(c, rb, t) ==
    IF rb.fixed THEN ZERO2
    ELSE VAdd(IF c.repel
              THEN SumRepel(c, rb, t, QuadTree_stack(t, rb.position, c.quadtree_theta), 1)
              ELSE ZERO2,
              IF c.gravity THEN compute_center_gravity(c.gravity_force, rb) ELSE ZERO2)

(* apply_node_force *)
apply_node_force(c, rbs, force_vec) ==
    [i \in DOMAIN rbs |->
        [rbs[i] EXCEPT !.velocity =
            VAdd(@, VScale(VDiv(force_vec[i], rbs[i].mass), c.delta_time))]]

(* an integration that moves every body that is not fixed by delta_time    *)
(* along x, whatever its velocity                                          *)
update_node_position_drifting(c, rbs) ==
    [i \in DOMAIN rbs |->
        IF rbs[i].fixed
        THEN [rbs[i] EXCEPT !.velocity = ZERO2]
        ELSE [rbs[i] EXCEPT !.position = VAdd(@, <<c.delta_time, R(0)>>)]]

(* an integration that compares the speed with the size of the threshold  *)
update_node_position_abs(c, rbs) ==
    [i \in DOMAIN rbs |->
        IF rbs[i].fixed
        THEN [rbs[i] EXCEPT !.velocity = ZERO2]
        ELSE LET velocity == VScale(rbs[i].velocity, c.damping)
                 moved == [rbs[i] EXCEPT !.velocity = velocity,
                                         !.position = VAdd(@, VScale(velocity, c.delta_time))]
             IN  IF RLt(total_velocity(moved), RAbs(c.freeze_thresh))
                 THEN [moved EXCEPT !.fixed = TRUE]
                 ELSE moved]

(* update_node_position *)
update_node_position(c, rbs) ==
    [i \in DOMAIN rbs |->
        IF rbs[i].fixed
        THEN [rbs[i] EXCEPT !.velocity = ZERO2]
        ELSE LET velocity == VScale(rbs[i].velocity, c.damping)
                 moved == [rbs[i] EXCEPT !.velocity = velocity,
                                         !.position = VAdd(@, VScale(velocity, c.delta_time))]
             IN  IF RLt(total_velocity(moved), c.freeze_thresh)
                 THEN [moved EXCEPT !.fixed = TRUE]
                 ELSE moved]

(**************************** simulator inputs *****************************)
DefaultCfg ==
    [repel |-> TRUE, spring |-> TRUE, gravity |-> TRUE,
     repel_force_const |-> R(100), spring_stiffness |-> R(100),
     spring_neutral_length |-> R(2), gravity_force |-> R(1),
     delta_time |-> Rat(5, 1000), damping |-> Rat(9, 10),
     quadtree_theta |-> Rat(3, 4), freeze_thresh |-> Rat(1, 100),
     max_threads |-> 16, edge_based_mass |-> TRUE]

(* the builder calls of a run: whole numbers keep the forces short.  The   *)
(* inverse-square quotients of the repulsion square their denominators at  *)
(* every tick a body moves, so the runs with repulsion damp the velocity   *)
(* to zero; the other runs freeze below 3 or never                         *)
Dynamics(r) ==
    IF r
    THEN { [freeze_thresh |-> R(3), damping |-> R(0)],
           [freeze_thresh |-> R(-1), damping |-> R(0)] }
    ELSE { [freeze_thresh |-> R(3), damping |-> R(1)],
           [freeze_thresh |-> R(-1), damping |-> R(1)] }

Cfgs ==
    UNION { { [DefaultCfg EXCEPT !.repel = r, !.spring = s, !.gravity = g,
                                 !.repel_force_const = R(4), !.spring_stiffness = R(1),
                                 !.delta_time = R(1), !.damping = d.damping,
                                 !.freeze_thresh = d.freeze_thresh,
                                 !.max_threads = m, !.edge_based_mass = FALSE] :
                s \in BOOLEAN, g \in BOOLEAN, d \in Dynamics(r), m \in {1, 2} } :
            r \in BOOLEAN }

(* graphs: no node, one node, two nodes joined by an edge, and a graph    *)
(* whose node indices have a hole                                          *)
Graphs ==
    { [node_count |-> 0, edges |-> <<>>],
      [node_count |-> 1, edges |-> <<>>],
      [node_count |-> 2, edges |-> << <<0, 1>> >>],
      \* a StableGraph of nodes 0, 1, 2 and the edge 1-2 after remove_node(0)
      [node_count |-> 2, edges |-> << <<1, 2>> >>] }

Xs == {-2, 2}
(* the first body at the left; a second one on it or four units apart *)
Placements(n) ==
    { place \in [1..n -> {V2(x, 0) : x \in Xs}] : n > 0 => place[1] = V2(-2, 0) }

NoTree == QuadTree_new(BoundingBox2D_new(ZERO2, R(0), R(0)))

InitSimIdle ==
    /\ cfg = DefaultCfg
    /\ rigid_bodies = <<>>
    /\ springs = <<>>
    /\ simulation_thread_lock = None
    /\ pc = "idle"
    /\ f_vec = <<>>
    /\ f_vec_lock = None
    /\ quadtree = NoTree
    /\ workers = <<>>
    /\ spring_i = 0
    /\ join_i = 0
    /\ ticks = 0
    /\ mutations = 0
    /\ toggle_sim = FALSE
    /\ sim_toggle = FALSE
    /\ toggles = 0

(***************************** the tree actions ****************************)
InitCaller ==
    /\ qt = QuadTree_new(RootBox2D)
    /\ qtv = QuadTreeVec_new(RootBox2D)
    /\ ot = OctaTree_new(RootBox3D)
    /\ inserted = <<>>
    /\ nodes = <<>>
    /\ query = NoQuery
    /\ panicked = FALSE
    /\ split = NoSplit

(* a behaviour works on one of the trees; the others stay empty *)
InitQuadTree == impl = "QuadTree" /\ InitCaller /\ InitSimIdle
InitQuadTreeVec == impl = "QuadTreeVec" /\ InitCaller /\ InitSimIdle
InitOctaTree == impl = "OctaTree" /\ InitCaller /\ InitSimIdle

QtInsert(position, mass) ==
    /\ impl = "QuadTree"
    /\ ~panicked
    /\ query = NoQuery
    /\ Len(inserted) < MaxBodies
    /\ IF mass = R(0)
       THEN /\ panicked' = TRUE        \* panic!("Mass in QuadTree may not be 0")
            /\ UNCHANGED <<qt, inserted>>
       ELSE /\ qt' = QuadTree_insert(qt, Len(inserted), position, mass)
            /\ inserted' = Append(inserted, [position |-> position, mass |-> mass])
            /\ UNCHANGED panicked
    /\ nodes' = <<>>
    /\ query' = NoQuery
    /\ UNCHANGED <<qtv, ot, impl>>
    /\ UNCHANGED <<simVars, split>>

QtStack(position, theta) ==
    /\ impl = "QuadTree"
    /\ query = NoQuery
    /\ ~panicked
    /\ nodes' = QuadTree_stack(qt, position, theta)
    /\ query' = [position |-> position, theta |-> theta]
    /\ UNCHANGED <<qt, qtv, ot, inserted, panicked, impl>>
    /\ UNCHANGED <<simVars, split>>

QtvInsert(position, mass) ==
    /\ impl = "QuadTreeVec"
    /\ query = NoQuery
    /\ Len(inserted) < MaxBodies
    /\ qtv' = QuadTreeVec_insert(qtv, position, mass)
    /\ inserted' = Append(inserted, [position |-> position, mass |-> mass])
    /\ nodes' = <<>>
    /\ query' = NoQuery
    /\ UNCHANGED <<qt, ot, panicked, impl>>
    /\ UNCHANGED <<simVars, split>>

QtvStack(position, theta) ==
    /\ impl = "QuadTreeVec"
    /\ query = NoQuery
    /\ nodes' = QuadTreeVec_stack(qtv, position, theta)
    /\ query' = [position |-> position, theta |-> theta]
    /\ UNCHANGED <<qt, qtv, ot, inserted, panicked, impl>>
    /\ UNCHANGED <<simVars, split>>

OtInsert(position, mass) ==
    /\ impl = "OctaTree"
    /\ query = NoQuery
    /\ Len(inserted) < MaxBodies
    /\ ot' = OctaTree_insert(ot, position, mass)
    /\ inserted' = Append(inserted, [position |-> position, mass |-> mass])
    /\ nodes' = <<>>
    /\ query' = NoQuery
    /\ UNCHANGED <<qt, qtv, panicked, impl>>
    /\ UNCHANGED <<simVars, split>>

OtStack(position, theta) ==
    /\ impl = "OctaTree"
    /\ query = NoQuery
    /\ nodes' = OctaTree_stack(ot, position, theta)
    /\ query' = [position |-> position, theta |-> theta]
    /\ UNCHANGED <<qt, qtv, ot, inserted, panicked, impl>>
    /\ UNCHANGED <<simVars, split>>

(* stack<'a>(&'a self, ..) -> Vec<&'a ..>: the result borrows the tree, so  *)
(* the caller lets go of it before the next insert(&mut self).             *)
DropNodes ==
    /\ query # NoQuery
    /\ nodes' = <<>>
    /\ query' = NoQuery
    /\ UNCHANGED <<qt, qtv, ot, inserted, panicked, impl>>
    /\ UNCHANGED <<simVars, split>>

NextQuadTree ==
    \/ \E position \in Points2D : \E mass \in MassesAt(position) : QtInsert(position, mass)
    \/ \E position \in Points2D, theta \in Thetas : QtStack(position, theta)
    \/ DropNodes

NextQuadTreeVec ==
    \/ \E position \in Points2D : \E mass \in MassesAt(position) : QtvInsert(position, mass)
    \/ \E position \in Points2D, theta \in Thetas : QtvStack(position, theta)
    \/ DropNodes

NextOctaTree ==
    \/ \E position \in Points3D : \E mass \in MassesAt(position) : OtInsert(position, mass)
    \/ \E position \in Points3D, theta \in Thetas : OtStack(position, theta)
    \/ DropNodes

SpecQuadTree == InitQuadTree /\ [][NextQuadTree]_vars
(* a light body near one corner of the root box and a heavy one at the     *)
(* opposite corner, or between them                                        *)
CornerPoints2D == { P2(-15, -15), P2(16, 16), P2(8, 8) }
CornerMasses == {R(1), R(6)}
NextCorners ==
    \/ \E position \in CornerPoints2D, mass \in CornerMasses : QtInsert(position, mass)
    \/ \E position \in CornerPoints2D, theta \in Thetas : QtStack(position, theta)
    \/ DropNodes
SpecCorners == InitQuadTree /\ [][NextCorners]_vars

(* the two arena trees *)
InitArena == InitQuadTreeVec \/ InitOctaTree
NextArena == NextQuadTreeVec \/ NextOctaTree
SpecArena == InitArena /\ [][NextArena]_vars
SpecQuadTreeVec == InitQuadTreeVec /\ [][NextQuadTreeVec]_vars
SpecOctaTree == InitOctaTree /\ [][NextOctaTree]_vars

(* the three trees side by side: a behaviour builds one of them *)
InitTrees == InitQuadTree \/ InitQuadTreeVec \/ InitOctaTree
NextTrees == NextQuadTree \/ NextQuadTreeVec \/ NextOctaTree
SpecTrees == InitTrees /\ [][NextTrees]_vars

(* a caller that also passes a mass that is zero or negative; the first  *)
(* such call is the last call of the run                                   *)
NonPositiveMasses == {R(0), R(-1)}
AllPositive == \A i \in DOMAIN inserted : RLt(R(0), inserted[i].mass)

NextMass ==
    \/ AllPositive /\ NextTrees
    \/ /\ AllPositive
       /\ \E mass \in NonPositiveMasses :
            \/ \E position \in Points2D : QtInsert(position, mass)
            \/ \E position \in Points2D : QtvInsert(position, mass)
            \/ \E position \in Points3D : OtInsert(position, mass)

SpecMass == InitTrees /\ [][NextMass]_vars

(************* quadtree.rs: the push-down loop, step by step ***************)
(* positions beyond the root box: to the right of it, above and to the     *)
(* right of it, to the left of it                                          *)
OutsidePoints2D == { P2(20, 1), P2(30, 1), P2(20, 24), P2(-30, 1) }

(* insert of a second body into a tree whose root is a leaf, lines 70-86:  *)
(* the bodies are not within EPSILON, the loop is entered                  *)
PushDownBegin(l_pos, position) ==
    /\ impl = "QuadTree"
    /\ split = NoSplit
    /\ ~RLt(distance_squared(position, l_pos), EPSILON_SQ)
    /\ split' = [pc |-> "loop", boundary |-> RootBox2D, position |-> position,
                 l_pos |-> l_pos, depth |-> 0]
    /\ UNCHANGED <<qt, qtv, ot, inserted, nodes, query, panicked, impl>>
    /\ UNCHANGED simVars

(* lines 88-104: quadrant == leaf_quadrant, an intermediate node is made   *)
(* and the loop goes on in its box                                         *)
PushDownStep ==
    /\ split.pc = "loop"
    /\ split.depth < MaxDepth
    /\ section(split.boundary, split.position) = section(split.boundary, split.l_pos)
    /\ split' = [split EXCEPT
                    !.boundary = sub_quadrant(split.boundary,
                                              section(split.boundary, split.l_pos)),
                    !.depth = split.depth + 1]
    /\ UNCHANGED <<qt, qtv, ot, inserted, nodes, query, panicked, impl>>
    /\ UNCHANGED simVars

(* lines 106-114: the quadrants differ, both leaves are set, insert returns *)
PushDownEnd ==
    /\ split.pc = "loop"
    /\ section(split.boundary, split.position) # section(split.boundary, split.l_pos)
    /\ split' = [split EXCEPT !.pc = "returned"]
    /\ UNCHANGED <<qt, qtv, ot, inserted, nodes, query, panicked, impl>>
    /\ UNCHANGED simVars

InitPushDown == InitQuadTree

NextPushDown ==
    \/ \E l_pos \in Points2D \cup OutsidePoints2D,
          position \in Points2D \cup OutsidePoints2D : PushDownBegin(l_pos, position)
    \/ PushDownStep
    \/ PushDownEnd

SpecPushDown == InitPushDown /\ [][NextPushDown]_vars

(************************** the simulator actions **************************)
InitSim ==
    /\ impl = "None"
    /\ \E c \in Cfgs, g \in Graphs :
         \E place \in Placements(g.node_count) :
            LET built == build_property_vec(place, g.edges, c.edge_based_mass) IN
            /\ cfg = c
            /\ rigid_bodies = built.rigid_bodies
            /\ springs = built.springs
    /\ simulation_thread_lock = None
    /\ pc = "idle"
    /\ f_vec = <<>>
    /\ f_vec_lock = None
    /\ quadtree = NoTree
    /\ workers = <<>>
    /\ spring_i = 0
    /\ join_i = 0
    /\ ticks = 0
    /\ mutations = 0
    /\ toggle_sim = FALSE
    /\ sim_toggle = FALSE
    /\ toggles = 0

(* simulation_step, lines 73-78: take the step lock, allocate the buffer *)
StepBeginAt(at) ==
    /\ pc = at
    /\ ticks < MaxTicks
    /\ simulation_thread_lock = None
    /\ simulation_thread_lock' = "ticker"
    /\ f_vec' = Zeros(Len(rigid_bodies))
    /\ workers' = <<>>
    /\ quadtree' = NoTree
    /\ spring_i' = 0
    /\ join_i' = 0
    /\ pc' = "calculate_forces"
    /\ UNCHANGED <<cfg, rigid_bodies, springs, f_vec_lock, ticks, mutations>>

(* a caller that loops over simulation_step, as examples/headless.rs does *)
StepBegin == StepBeginAt("idle")

(* calculate_forces, lines 87-113: the division, the tree, the spawns *)
CalculateForces ==
    /\ pc = "calculate_forces"
    /\ IF ~(cfg.repel \/ cfg.gravity)
       THEN /\ pc' = "apply_node_force"
            /\ UNCHANGED <<simulation_thread_lock, quadtree, workers>>
       ELSE LET node_count == Len(rigid_bodies)
                thread_count == Min(node_count, cfg.max_threads)
            IN  IF thread_count = 0
                THEN \* node_count / thread_count: attempt to divide by zero
                     /\ pc' = "panicked"
                     /\ simulation_thread_lock' = "poisoned"
                     /\ UNCHANGED <<quadtree, workers>>
                ELSE /\ quadtree' = build_quadtree(rigid_bodies)
                     /\ workers' =
                          [t \in 1..thread_count |->
                              [pc |-> "run",
                               i |-> SliceStart(t - 1, node_count, thread_count),
                               end_index |-> SliceEnd(t - 1, node_count, thread_count),
                               force_vec |-> Zeros(node_count)]]
                     /\ pc' = IF cfg.spring THEN "spring_lock" ELSE "join"
                     /\ UNCHANGED simulation_thread_lock
    /\ UNCHANGED <<cfg, rigid_bodies, springs, f_vec, f_vec_lock, spring_i, join_i,
                   ticks, mutations>>

(* compute_spring_forces_edges, line 215: force_vec_arc.lock() *)
SpringLock ==
    /\ pc = "spring_lock"
    /\ f_vec_lock = None
    /\ f_vec_lock' = "main"
    /\ pc' = "springs"
    /\ UNCHANGED <<cfg, rigid_bodies, springs, simulation_thread_lock, f_vec, quadtree,
                   workers, spring_i, join_i, ticks, mutations>>

(* lines 217-227: one spring; an index past the bodies panics with both    *)
(* guards held                                                             *)
SpringStep ==
    /\ pc = "springs"
    /\ spring_i < Len(springs)
    /\ LET spring == springs[spring_i + 1] IN
       IF spring.rb1 >= Len(rigid_bodies) \/ spring.rb2 >= Len(rigid_bodies)
          \/ spring.rb1 >= Len(f_vec) \/ spring.rb2 >= Len(f_vec)
       THEN /\ pc' = "panicked"
            /\ f_vec_lock' = "poisoned"
            /\ simulation_thread_lock' = "poisoned"
            /\ UNCHANGED <<f_vec, spring_i>>
       ELSE LET rb1 == rigid_bodies[spring.rb1 + 1]
                rb2 == rigid_bodies[spring.rb2 + 1]
                spring_force == compute_spring_force(cfg, rb1, rb2)
                sub == [f_vec EXCEPT ![spring.rb1 + 1] = VSub(@, spring_force)]
            IN  /\ f_vec' = [sub EXCEPT ![spring.rb2 + 1] = VAdd(@, spring_force)]
                /\ spring_i' = spring_i + 1
                /\ UNCHANGED <<pc, f_vec_lock, simulation_thread_lock>>
    /\ UNCHANGED <<cfg, rigid_bodies, springs, quadtree, workers, join_i, ticks, mutations>>

(* line 228: the guard of f_vec is dropped *)
SpringEnd ==
    /\ pc = "springs"
    /\ spring_i = Len(springs)
    /\ f_vec_lock' = None
    /\ pc' = "join"
    /\ UNCHANGED <<cfg, rigid_bodies, springs, simulation_thread_lock, f_vec, quadtree,
                   workers, spring_i, join_i, ticks, mutations>>

(* spawn_physics_thread, lines 144-171: worker t handles its next body *)
WorkerBody(t) ==
    /\ t \in DOMAIN workers
    /\ workers[t].pc = "run"
    /\ LET w == workers[t]
           rb == rigid_bodies[w.i + 1]
           force == BodyForce(cfg, rb, quadtree)
       IN  workers' = [workers EXCEPT
                ![t].force_vec[w.i + 1] = VAdd(@, force),
                ![t].i = w.i + 1,
                ![t].pc = IF w.i + 1 = w.end_index THEN "merge" ELSE "run"]
    /\ UNCHANGED <<cfg, rigid_bodies, springs, simulation_thread_lock, pc, f_vec,
                   f_vec_lock, quadtree, spring_i, join_i, ticks, mutations>>

(* lines 173-179: the private slice is added to the shared buffer *)
WorkerMerge(t) ==
    /\ t \in DOMAIN workers
    /\ workers[t].pc = "merge"
    /\ f_vec_lock \in {None, "poisoned"}
    /\ IF f_vec_lock = "poisoned"
       THEN /\ workers' = [workers EXCEPT ![t].pc = "panicked"]
            /\ UNCHANGED f_vec
       ELSE /\ f_vec' = [i \in DOMAIN f_vec |-> VAdd(f_vec[i], workers[t].force_vec[i])]
            /\ workers' = [workers EXCEPT ![t].pc = "done"]
    /\ UNCHANGED <<cfg, rigid_bodies, springs, simulation_thread_lock, pc, f_vec_lock,
                   quadtree, spring_i, join_i, ticks, mutations>>

(* a join loop that does not wait for the worker to finish *)
JoinWorkerNoWait ==
    /\ pc = "join"
    /\ join_i < Len(workers)
    /\ join_i' = join_i + 1
    /\ pc' = IF join_i + 1 = Len(workers) THEN "apply_node_force" ELSE "join"
    /\ UNCHANGED <<cfg, rigid_bodies, springs, simulation_thread_lock, f_vec, f_vec_lock,
                   quadtree, workers, spring_i, ticks, mutations>>

(* calculate_forces, lines 119-121: handle.join().unwrap() *)
JoinWorker ==
    /\ pc = "join"
    /\ join_i < Len(workers)
    /\ workers[join_i + 1].pc \in {"done", "panicked"}
    /\ IF workers[join_i + 1].pc = "panicked"
       THEN /\ pc' = "panicked"
            /\ simulation_thread_lock' = "poisoned"
            /\ UNCHANGED join_i
       ELSE /\ join_i' = join_i + 1
            /\ pc' = IF join_i + 1 = Len(workers) THEN "apply_node_force" ELSE "join"
            /\ UNCHANGED simulation_thread_lock
    /\ UNCHANGED <<cfg, rigid_bodies, springs, f_vec, f_vec_lock, quadtree, workers,
                   spring_i, ticks, mutations>>

(* simulation_step, line 82 *)
ApplyNodeForce ==
    /\ pc = "apply_node_force"
    /\ f_vec_lock = None
    /\ IF Len(f_vec) < Len(rigid_bodies)
       THEN /\ pc' = "panicked"         \* force_vec[i]: index out of bounds
            /\ simulation_thread_lock' = "poisoned"
            /\ UNCHANGED rigid_bodies
       ELSE /\ rigid_bodies' = apply_node_force(cfg, rigid_bodies, f_vec)
            /\ pc' = "update_node_position"
            /\ UNCHANGED simulation_thread_lock
    /\ UNCHANGED <<cfg, springs, f_vec, f_vec_lock, quadtree, workers, spring_i, join_i,
                   ticks, mutations>>

(* simulation_step, lines 83-84: integrate, then the step lock is dropped *)
UpdateNodePosition ==
    /\ pc = "update_node_position"
    /\ rigid_bodies' = update_node_position(cfg, rigid_bodies)
    /\ simulation_thread_lock' = None
    /\ pc' = "idle"
    /\ ticks' = ticks + 1
    /\ UNCHANGED <<cfg, springs, f_vec, f_vec_lock, quadtree, workers, spring_i, join_i,
                   mutations>>

(* a push that does not wait for the step lock *)
InsertNodeUnlocked(vec) ==
    /\ mutations < MaxMutations
    /\ simulation_thread_lock # "poisoned"
    /\ rigid_bodies' = Append(rigid_bodies, RigidBody2D_new(vec, R(5)))
    /\ mutations' = mutations + 1
    /\ UNCHANGED <<cfg, springs, simulation_thread_lock, pc, f_vec, f_vec_lock, quadtree,
                   workers, spring_i, join_i, ticks>>

(* insert_node: waits for the step lock, then pushes a body of mass 5 *)
InsertNode(vec) ==
    /\ mutations < MaxMutations
    /\ simulation_thread_lock = None
    /\ rigid_bodies' = Append(rigid_bodies, RigidBody2D_new(vec, R(5)))
    /\ mutations' = mutations + 1
    /\ UNCHANGED <<cfg, springs, simulation_thread_lock, pc, f_vec, f_vec_lock, quadtree,
                   workers, spring_i, join_i, ticks>>

(* set_node_location_by_index: takes the write guard of rigid_bodies only *)
SetNodeLocation(loc, index) ==
    /\ mutations < MaxMutations
    /\ index < Len(rigid_bodies)
    /\ rigid_bodies' = [rigid_bodies EXCEPT ![index + 1].position = loc]
    /\ mutations' = mutations + 1
    /\ UNCHANGED <<cfg, springs, simulation_thread_lock, pc, f_vec, f_vec_lock, quadtree,
                   workers, spring_i, join_i, ticks>>

Locs == {V2(1, 0)}

TickBody ==
    \/ CalculateForces
    \/ SpringLock
    \/ SpringStep
    \/ SpringEnd
    \/ \E t \in 1..2 : WorkerBody(t)
    \/ \E t \in 1..2 : WorkerMerge(t)
    \/ JoinWorker
    \/ ApplyNodeForce
    \/ UpdateNodePosition

Tick ==
    \/ StepBegin
    \/ TickBody

Next ==
    \/ Tick /\ UNCHANGED <<treeVars, rendererVars>>
    \/ \E vec \in Locs : InsertNode(vec) /\ UNCHANGED <<treeVars, rendererVars>>
    \/ \E loc \in Locs, index \in 0..2 :
          SetNodeLocation(loc, index) /\ UNCHANGED <<treeVars, rendererVars>>

Init == InitCaller /\ InitSim

Spec == Init /\ [][Next]_vars

(*************** a Simulator with every force switched off *****************)
(* SimulatorBuilder with repel(false), spring(false), gravity(false) and   *)
(* damping(1.0)                                                            *)
ZeroCfgs ==
    {c \in Cfgs : ~c.repel /\ ~c.spring /\ ~c.gravity /\ c.damping = R(1)}

(* a caller's write through the public field rigid_bodies to the public    *)
(* field velocity of a body: it takes the write guard of rigid_bodies only *)
SetVelocity(velocity, index) ==
    /\ mutations < MaxMutations
    /\ index < Len(rigid_bodies)
    /\ rigid_bodies' = [rigid_bodies EXCEPT ![index + 1].velocity = velocity]
    /\ mutations' = mutations + 1
    /\ UNCHANGED <<cfg, springs, simulation_thread_lock, pc, f_vec, f_vec_lock, quadtree,
                   workers, spring_i, join_i, ticks>>

Velocities == {V2(1, 0)}

InitZeroTick == InitCaller /\ InitSim /\ cfg \in ZeroCfgs

(* calculate_forces returns at once, so no worker and no spring pass runs *)
NextZeroTick ==
    \/ StepBegin /\ UNCHANGED <<treeVars, rendererVars>>
    \/ CalculateForces /\ UNCHANGED <<treeVars, rendererVars>>
    \/ ApplyNodeForce /\ UNCHANGED <<treeVars, rendererVars>>
    \/ UpdateNodePosition /\ UNCHANGED <<treeVars, rendererVars>>
    \/ \E vec \in Locs : InsertNode(vec) /\ UNCHANGED <<treeVars, rendererVars>>
    \/ \E loc \in Locs, index \in 0..2 :
          SetNodeLocation(loc, index) /\ UNCHANGED <<treeVars, rendererVars>>
    \/ \E velocity \in Velocities, index \in 0..2 :
          SetVelocity(velocity, index) /\ UNCHANGED <<treeVars, rendererVars>>

SpecZeroTick == InitZeroTick /\ [][NextZeroTick]_vars

(******************* renderer.rs: the ticker and the events ****************)
(* spawn_simulation_thread, lines 188-190: the loop reads the toggle and  *)
(* drops the guard                                                         *)
ReadToggle ==
    /\ pc = "idle"
    /\ sim_toggle' = toggle_sim
    /\ pc' = "toggle_read"
    /\ UNCHANGED <<toggle_sim, toggles>>
    /\ UNCHANGED <<cfg, rigid_bodies, springs, simulation_thread_lock, f_vec, f_vec_lock,
                   quadtree, workers, spring_i, join_i, ticks, mutations>>

(* lines 192-194: if sim_toggle { sim.simulation_step(); } *)
TickerStepBegin ==
    /\ sim_toggle
    /\ StepBeginAt("toggle_read")
    /\ UNCHANGED rendererVars

(* the copy was false: the body of the loop ends and the loop starts again *)
LoopAgain ==
    /\ pc = "toggle_read"
    /\ ~sim_toggle
    /\ pc' = "idle"
    /\ UNCHANGED rendererVars
    /\ UNCHANGED <<cfg, rigid_bodies, springs, simulation_thread_lock, f_vec, f_vec_lock,
                   quadtree, workers, spring_i, join_i, ticks, mutations>>

(* events, lines 377-387: the space key flips the toggle *)
ToggleSim ==
    /\ toggles < MaxToggles
    /\ toggle_sim' = ~toggle_sim
    /\ toggles' = toggles + 1
    /\ UNCHANGED sim_toggle
    /\ UNCHANGED <<cfg, rigid_bodies, springs, simulation_thread_lock, pc, f_vec,
                   f_vec_lock, quadtree, workers, spring_i, join_i, ticks, mutations>>

(* run_render_loop, lines 152-161: place mode inserts a node while the    *)
(* toggle is false                                                         *)
PlaceNode(vec) ==
    /\ ~toggle_sim
    /\ InsertNode(vec)
    /\ UNCHANGED rendererVars

(* run_render_loop, lines 141-151: the selected node follows the cursor *)
DragNode(loc, index) ==
    /\ SetNodeLocation(loc, index)
    /\ UNCHANGED rendererVars

NextRenderer ==
    \/ ReadToggle /\ UNCHANGED treeVars
    \/ TickerStepBegin /\ UNCHANGED treeVars
    \/ LoopAgain /\ UNCHANGED treeVars
    \/ TickBody /\ UNCHANGED <<treeVars, rendererVars>>
    \/ ToggleSim /\ UNCHANGED treeVars
    \/ \E vec \in Locs : PlaceNode(vec) /\ UNCHANGED treeVars
    \/ \E loc \in Locs, index \in 0..2 : DragNode(loc, index) /\ UNCHANGED treeVars

InitRenderer == InitCaller /\ InitSim

SpecRenderer == InitRenderer /\ [][NextRenderer]_vars

(****************************** tree measures ******************************)
RECURSIVE SumOver(_, _)
SumOver(S, f) ==
    IF S = {} THEN R(0)
    ELSE LET x == CHOOSE y \in S : TRUE IN RAdd(f[x], SumOver(S \ {x}, f))

RECURSIVE VSumOver(_, _, _)
VSumOver(S, f, zero) ==
    IF S = {} THEN zero
    ELSE LET x == CHOOSE y \in S : TRUE IN VAdd(f[x], VSumOver(S \ {x}, f, zero))

LeavesBeneath(t, p) == {x \in DOMAIN t : IsPrefix(p, x) /\ is_leaf(t, x)}
LeafMassBeneath(t, p) == SumOver(LeavesBeneath(t, p), [x \in DOMAIN t |-> t[x].mass])
InsertedMass == SumOver(DOMAIN inserted, [i \in DOMAIN inserted |-> inserted[i].mass])

(* arena trees: the entries reachable from entry i along the child slots *)
RECURSIVE Reach(_, _)
Reach(children, i) ==
    LET n == children[i + 1] IN
    IF n.kind = "Leaf" THEN {i}
    ELSE {i} \cup UNION {Reach(children, n.indices[k]) :
                            k \in {j \in DOMAIN n.indices : n.indices[j] # U32_MAX}}

ReachAll(t) == IF t.children = <<>> THEN {} ELSE Reach(t.children, t.root)
ArenaLeavesBeneath(children, i) == {j \in Reach(children, i) : children[j + 1].kind = "Leaf"}

ArenaIndices(t) == 0..(Len(t.children) - 1)

ArenaMassBeneath(t, i) ==
    SumOver(ArenaLeavesBeneath(t.children, i),
            [j \in ArenaIndices(t) |-> t.children[j + 1].mass])

ArenaMomentBeneath(t, i, zero) ==
    VSumOver(ArenaLeavesBeneath(t.children, i),
             [j \in ArenaIndices(t) |->
                 VScale(t.children[j + 1].pos, t.children[j + 1].mass)], zero)

(* the box reached from bb along the child slots of path p *)
RECURSIVE PathBox(_, _)
PathBox(bb, p) == IF p = <<>> THEN bb ELSE PathBox(sub_quadrant(bb, Head(p)), Tail(p))

(* the reachable leaves of an arena tree, each with the box of its path *)
RECURSIVE ArenaLeafBoxes(_, _, _, _)
ArenaLeafBoxes(children, i, bb, dim) ==
    LET n == children[i + 1] IN
    IF n.kind = "Leaf" THEN {[index |-> i, bb |-> bb]}
    ELSE UNION { ArenaLeafBoxes(children, n.indices[k],
                     IF dim = 2 THEN sub_quadrant(bb, k - 1)
                                ELSE sub_quadrant3D(bb, k - 1), dim) :
                 k \in {j \in DOMAIN n.indices : n.indices[j] # U32_MAX} }

LeafBoxes(t, dim) ==
    IF t.children = <<>> THEN {} ELSE ArenaLeafBoxes(t.children, t.root, t.boundary, dim)

Range(f) == {f[i] : i \in DOMAIN f}
FartherThanEpsilon(a, b) == RLt(EPSILON_SQ, distance_squared(a, b))
QtLeaves == {p \in DOMAIN qt : is_leaf(qt, p) /\ qt[p].mass # R(0)}
Arena == IF impl = "QuadTreeVec" THEN qtv ELSE ot

(*********************************** C1 ************************************)
(* C1: in the pointer QuadTree every node with at least one child has mass  *)
(* equal to the sum of the masses of the leaves beneath it, and the root's  *)
(* mass is the sum of all inserted masses.                                  *)
C1_MassConservation ==
    /\ \A p \in DOMAIN qt : ~is_leaf(qt, p) => qt[p].mass = LeafMassBeneath(qt, p)
    /\ qt[<<>>].mass = InsertedMass

(*********************************** C2 ************************************)
(* C2: in the arena QuadTreeVec every Root entry reachable from the root    *)
(* stores pos equal to the sum of mass * position over the leaves beneath   *)
(* it.                                                                      *)
C2_CentroidSum ==
    \A i \in ReachAll(qtv) :
        qtv.children[i + 1].kind = "Root" =>
            qtv.children[i + 1].pos = ArenaMomentBeneath(qtv, i, ZERO2)

(*********************************** C3 ************************************)
(* C3: every leaf's position lies within the box obtained from the root box *)
(* by applying sub_quadrant along the child-slot path to that leaf, in the  *)
(* pointer tree and in both arena trees.                                    *)
C3_Containment ==
    /\ impl = "QuadTree" =>
          \A p \in QtLeaves :
              Contains2D(PathBox(qt[<<>>].boundary, p), QuadTree_position(qt[p]))
    /\ impl = "QuadTreeVec" =>
          \A l \in LeafBoxes(qtv, 2) :
              Contains2D(l.bb, qtv.children[l.index + 1].pos)
    /\ impl = "OctaTree" =>
          \A l \in LeafBoxes(ot, 3) :
              Contains3D(l.bb, ot.children[l.index + 1].pos)

(* a leaf three levels down, next to a leaf placed in an empty slot *)
C3_Witness ==
    /\ impl = "QuadTree"
    /\ Len(inserted) = 3
    /\ \E p \in QtLeaves : Len(p) >= 3

(*********************************** C4 ************************************)
(* C4: with theta = 0, stack emits no Internal node and emits every leaf    *)
(* whose position is farther than EPSILON from the query point.             *)
C4_ThetaZero ==
    (query # NoQuery /\ query.theta = R(0)) =>
        /\ impl = "QuadTree" =>
              /\ \A p \in Range(nodes) : is_leaf(qt, p)
              /\ \A p \in QtLeaves :
                    FartherThanEpsilon(QuadTree_position(qt[p]), query.position)
                        => p \in Range(nodes)
        /\ impl # "QuadTree" =>
              /\ \A i \in Range(nodes) : Arena.children[i + 1].kind = "Leaf"
              /\ \A i \in ReachAll(Arena) :
                    (/\ Arena.children[i + 1].kind = "Leaf"
                     /\ FartherThanEpsilon(Arena.children[i + 1].pos, query.position))
                        => i \in Range(nodes)

(* a theta = 0 query of a pointer tree with an Internal node: two leaves    *)
(* are emitted and the leaf at the query point is not                       *)
C4_Witness ==
    /\ impl = "QuadTree"
    /\ query # NoQuery
    /\ query.theta = R(0)
    /\ Len(nodes) >= 2
    /\ \E p \in QtLeaves : p \notin Range(nodes)
    /\ \E p \in DOMAIN qt : ~is_leaf(qt, p)

(*********************************** C5 ************************************)
(* C5: stack of QuadTreeVec and OctaTree emits a Leaf only if its position  *)
(* is strictly farther than EPSILON from the query point.                   *)
C5_SelfExclusion ==
    (impl # "QuadTree" /\ query # NoQuery) =>
        \A i \in Range(nodes) :
            Arena.children[i + 1].kind = "Leaf"
                => FartherThanEpsilon(Arena.children[i + 1].pos, query.position)


(*********************************** C6 ************************************)
(* C6: set_node_location_by_index is synchronized against the step lock:  *)
(* it never takes effect between the start and the end of an in-flight    *)
(* simulation_step, that is, while the ticker holds simulation_thread_lock *)
C6_SetLocationOutsideTick ==
    [][(\E loc \in Locs, index \in 0..MaxBodies : SetNodeLocation(loc, index))
         => simulation_thread_lock = None]_vars

(*********************************** C7 ************************************)
(* C7: simulation_step returns normally, it never panics, for every built  *)
(* Simulator: every body count, the empty graph included, and every        *)
(* combination of the repel, spring and gravity flags                      *)
C7_TickNeverPanics == pc # "panicked"

(*********************************** C8 ************************************)
(* C8: with spring = true, when calculate_forces of a tick has returned,   *)
(* every spring has had its force subtracted from the slot of rb1 and      *)
(* added to the slot of rb2, whatever repel and gravity are                *)
C8_SpringPassRuns ==
    (cfg.spring /\ pc = "apply_node_force") => spring_i = Len(springs)

(*********************************** C9 ************************************)
(* the velocity body i had when this tick began: apply_node_force is the   *)
(* only step of a tick before update_node_position that writes it          *)
VelocityAtTickStart(i) ==
    VSub(rigid_bodies[i].velocity,
         VScale(VDiv(f_vec[i], rigid_bodies[i].mass), cfg.delta_time))

(* C9: freeze monotonicity: a body that is fixed when a simulation_step    *)
(* ends its tick leaves the tick fixed, at the same position and with the  *)
(* velocity it had when the tick began                                     *)
C9_FreezeMonotone ==
    [][(pc = "update_node_position" /\ pc' = "idle") =>
          \A i \in DOMAIN rigid_bodies :
             rigid_bodies[i].fixed =>
                /\ rigid_bodies'[i].fixed
                /\ rigid_bodies'[i].position = rigid_bodies[i].position
                /\ rigid_bodies'[i].velocity = VelocityAtTickStart(i)]_vars

(*********************************** C10 ***********************************)
(* C10: while no tick is in flight, every body with fixed = true has       *)
(* velocity exactly zero                                                   *)
C10_FixedHasZeroVelocity ==
    simulation_thread_lock = None =>
        \A i \in DOMAIN rigid_bodies :
            rigid_bodies[i].fixed => rigid_bodies[i].velocity = ZERO2


(*********************************** C11 ***********************************)
(* C11: no simulation tick begins while the toggle is false: the step at   *)
(* which the ticker takes the step lock is taken with toggle_sim = TRUE    *)
C11_NoTickBeginsWhileDisabled ==
    [][(simulation_thread_lock = None /\ simulation_thread_lock' = "ticker")
         => toggle_sim]_vars

(*********************************** C12 ***********************************)
(* C12: teardown: once the toggle has been set to false, the ticker      *)
(* thread exits at the toggle check that finds it false: its next step     *)
(* after reading FALSE is its exit                                         *)
C12_TickerExitsWhenDisabled ==
    [][(toggles > 0 /\ pc = "toggle_read" /\ ~sim_toggle /\ ~toggle_sim /\ pc' # pc)
         => pc' = "exited"]_vars


(*********************************** C13 ***********************************)
(* C13: insert rejects a mass that is zero or negative on every tree: no   *)
(* such body is ever added to a tree (the call panics instead)             *)
C13_NonPositiveMassRejected ==
    \A i \in DOMAIN inserted : RLt(R(0), inserted[i].mass)


(*********************************** C14 ***********************************)
(* on axis a (1: x and width, 2: y and height) no halving of the box can   *)
(* part p and q: they are level, or both at or beyond the upper edge, or   *)
(* both at or beyond the lower edge                                        *)
NeverPartedOn(bb, a, p, q) ==
    LET extent == IF a = 1 THEN bb.width ELSE bb.height
        upper == RAdd(bb.center[a], RMul(Rat(1, 2), extent))
        lower == RSub(bb.center[a], RMul(Rat(1, 2), extent))
    IN  \/ p[a] = q[a]
        \/ RLe(upper, p[a]) /\ RLe(upper, q[a])
        \/ RLe(p[a], lower) /\ RLe(q[a], lower)

(* section gives p and q the same quadrant in bb and in every box that     *)
(* sub_quadrant derives from it: the loop of lines 88-104 cannot end       *)
Stuck(bb, p, q) == NeverPartedOn(bb, 1, p, q) /\ NeverPartedOn(bb, 2, p, q)

(* a stuck loop keeps the quadrants equal and stays stuck after its step   *)
StuckStaysStuck ==
    [][(split.pc = "loop" /\ Stuck(split.boundary, split.position, split.l_pos))
         => /\ section(split.boundary, split.position)
                 = section(split.boundary, split.l_pos)
            /\ Stuck(split'.boundary, split'.position, split'.l_pos)]_vars

(* C14: every insert with positive mass terminates, also for positions     *)
(* outside the root box: the push-down loop is never in a state from which *)
(* no number of subdivision steps parts the two bodies                     *)
C14_InsertTerminates ==
    split.pc = "loop" => ~Stuck(split.boundary, split.position, split.l_pos)


(*********************************** C15 ***********************************)
(* C15: spring index invariant: rb1 and rb2 of every spring are smaller    *)
(* than the current number of bodies, for every graph build was given      *)
C15_SpringIndicesInRange ==
    \A k \in DOMAIN springs :
        /\ springs[k].rb1 < Len(rigid_bodies)
        /\ springs[k].rb2 < Len(rigid_bodies)


(*********************************** C16 ***********************************)
(* a simulation_step is in flight: its thread holds the step lock, or one  *)
(* of its workers is still reading the bodies and writing the force buffer *)
StepInFlight ==
    \/ simulation_thread_lock = "ticker"
    \/ \E t \in DOMAIN workers : workers[t].pc \in {"run", "merge"}

(* C16: the number of bodies never changes while a simulation_step is in   *)
(* flight, and the force buffer is as long as the body vector throughout   *)
(* the step, from its allocation to the end of integration                 *)
C16_InsertWaitsForStep ==
    [][/\ StepInFlight => Len(rigid_bodies') = Len(rigid_bodies)
       /\ StepInFlight' => Len(f_vec') = Len(rigid_bodies')]_vars

(* an inserted body (mass 5) is integrated by a later step *)
C16_Witness ==
    /\ pc = "update_node_position"
    /\ simulation_thread_lock = "ticker"
    /\ \E i \in DOMAIN rigid_bodies : rigid_bodies[i].mass = R(5)


(*********************************** C17 ***********************************)
(* C17: classification totality: for the box and the position the          *)
(* push-down loop classifies (the position inside the box or outside it),  *)
(* section is in 0..3 and the sub_quadrant of that section contains the    *)
(* position                                                                *)
C17_ClassificationTotal ==
    split.pc = "loop" =>
        LET sec == section(split.boundary, split.position) IN
        /\ sec \in 0..3
        /\ Contains2D(sub_quadrant(split.boundary, sec), split.position)


(* C17, amended: for the box and the position the push-down loop          *)
(* classifies, section is in 0..3, and when the position lies inside the   *)
(* box the sub_quadrant of that section contains it                        *)
C17_ClassificationOfInsidePoints ==
    split.pc = "loop" =>
        LET sec == section(split.boundary, split.position) IN
        /\ sec \in 0..3
        /\ Contains2D(split.boundary, split.position) =>
               Contains2D(sub_quadrant(split.boundary, sec), split.position)

(* the loop classifies a position inside the box of its second level *)
C17_Witness ==
    /\ split.pc = "loop"
    /\ split.depth = 2
    /\ Contains2D(split.boundary, split.position)

(*********************************** C18 ***********************************)
(* the body an insert step adds, and the leaf its walk reaches in the tree *)
(* before the step                                                         *)
InsertStep == Len(inserted') = Len(inserted) + 1
NewBody == inserted'[Len(inserted')]

QtWalkLeaf == search_parent(qt, <<>>, NewBody.position, NewBody.mass).parent
QtMergeCase ==
    /\ impl = "QuadTree"
    /\ qt[<<>>].mass # R(0)
    /\ is_leaf(qt, QtWalkLeaf)
    /\ RLt(distance_squared(NewBody.position, QuadTree_position(qt[QtWalkLeaf])),
           EPSILON_SQ)

ArenaDescend ==
    LET pushed == Append(Arena.children, [kind |-> "Leaf", mass |-> NewBody.mass,
                                          pos |-> NewBody.position])
    IN  IF impl = "QuadTreeVec"
        THEN qtv_descend(pushed, Arena.boundary, Arena.root, Len(pushed) - 1,
                         NewBody.position, NewBody.mass)
        ELSE ot_descend(pushed, Arena.boundary, Arena.root, Len(pushed) - 1,
                        NewBody.position, NewBody.mass)
ArenaWalkLeaf == ArenaDescend.root_index
ArenaMergeCase ==
    /\ impl \in {"QuadTreeVec", "OctaTree"}
    /\ Arena.children # <<>>
    /\ Arena.children[ArenaWalkLeaf + 1].kind = "Leaf"
    /\ RLt(distance_squared(NewBody.position, Arena.children[ArenaWalkLeaf + 1].pos),
           EPSILON_SQ)

ArenaRoots(t) == {j \in ReachAll(t) : t.children[j + 1].kind = "Root"}
ArenaLeaves(t) == {j \in ReachAll(t) : t.children[j + 1].kind = "Leaf"}
QtInternal(t) == {p \in DOMAIN t : ~is_leaf(t, p)}
QtLeafPaths(t) == {p \in DOMAIN t : is_leaf(t, p)}

(* two coincident bodies were inserted into an empty tree *)
TwoCoincident ==
    /\ Len(inserted) = 2
    /\ inserted[1].position = inserted[2].position
SingleSummedLeaf ==
    LET sum == RAdd(inserted[1].mass, inserted[2].mass) IN
    IF impl = "QuadTree"
    THEN /\ QtLeafPaths(qt) = {<<>>}
         /\ qt[<<>>].mass = sum
    ELSE /\ Cardinality(ArenaLeaves(Arena)) = 1
         /\ \A j \in ArenaLeaves(Arena) : Arena.children[j + 1].mass = sum

(* C18: epsilon-merge: an insert whose walk reaches a leaf within EPSILON  *)
(* of the new position adds the new mass to that leaf, creates no internal *)
(* node and leaves the number of reachable leaves unchanged; two           *)
(* coincident bodies inserted into an empty tree end as one leaf holding   *)
(* the sum of their masses                                                 *)
C18_EpsilonMerge ==
    [][/\ (InsertStep /\ QtMergeCase) =>
            /\ is_leaf(qt', QtWalkLeaf)
            /\ qt'[QtWalkLeaf].mass = RAdd(qt[QtWalkLeaf].mass, NewBody.mass)
            /\ QtInternal(qt') = QtInternal(qt)
            /\ Cardinality(QtLeafPaths(qt')) = Cardinality(QtLeafPaths(qt))
       /\ (InsertStep /\ ArenaMergeCase) =>
            /\ Arena'.children[ArenaWalkLeaf + 1].kind = "Leaf"
            /\ Arena'.children[ArenaWalkLeaf + 1].mass =
                   RAdd(Arena.children[ArenaWalkLeaf + 1].mass, NewBody.mass)
            /\ ArenaRoots(Arena') = ArenaRoots(Arena)
            /\ Cardinality(ArenaLeaves(Arena')) = Cardinality(ArenaLeaves(Arena))
       /\ TwoCoincident' => SingleSummedLeaf']_vars

(* a third body was merged into the leaf of the second, a step of EPSILON/2 *)
(* away from it, while the first body keeps a leaf of its own               *)
C18_Witness ==
    /\ Len(inserted) = 3
    /\ inserted[2].position # inserted[3].position
    /\ RLt(distance_squared(inserted[2].position, inserted[3].position), EPSILON_SQ)
    /\ FartherThanEpsilon(inserted[1].position, inserted[2].position)
    /\ IF impl = "QuadTree"
       THEN Cardinality(QtLeaves) = 2
       ELSE Cardinality(ArenaLeaves(Arena)) = 2


(*********************************** C19 ***********************************)
(* the leaves that hold a body, each as its stored mass and position, with *)
(* the path or index it is reached by                                      *)
QtStoredLeaves(t) == {p \in DOMAIN t : is_leaf(t, p) /\ t[p].mass # R(0)}

(* leaf p of the tree before the step is found, at p or deeper, with the   *)
(* same mass and position in the tree after it                             *)
QtLeafKept(p) ==
    \E x \in QtStoredLeaves(qt') :
        /\ IsPrefix(p, x)
        /\ qt'[x].mass = qt[p].mass
        /\ qt'[x].position = qt[p].position

ArenaLeafKept(j) ==
    \E x \in ArenaLeaves(Arena') :
        /\ Arena'.children[x + 1].mass = Arena.children[j + 1].mass
        /\ Arena'.children[x + 1].pos = Arena.children[j + 1].pos

(* two bodies, in different root quadrants, were inserted into an empty    *)
(* pointer tree                                                            *)
TwoInDifferentQuadrants(im, ins) ==
    /\ im = "QuadTree"
    /\ Len(ins) = 2
    /\ section(RootBox2D, ins[1].position) # section(RootBox2D, ins[2].position)
    /\ FartherThanEpsilon(ins[1].position, ins[2].position)
RootSlot(position) == <<section(RootBox2D, position)>>
TwoLeavesUnderRoot(t, ins) ==
    /\ DOMAIN t = {<<>>, RootSlot(ins[1].position), RootSlot(ins[2].position)}
    /\ \A i \in 1..2 :
          /\ t[RootSlot(ins[i].position)].mass = ins[i].mass
          /\ t[RootSlot(ins[i].position)].position = VScale(ins[i].position, ins[i].mass)

(* C19: an insert leaves the stored leaves as they were: every leaf of the *)
(* tree before the insert, other than the leaf the new body is merged      *)
(* into, is reachable after it with the same mass and position, at its     *)
(* place or deeper; two bodies inserted into different root quadrants end  *)
(* as two leaves in the slots section gives, under an internal root        *)
C19_InsertKeepsLeaves ==
    [][/\ (InsertStep /\ impl = "QuadTree") =>
            \A p \in QtStoredLeaves(qt) :
                (QtMergeCase /\ p = QtWalkLeaf) \/ QtLeafKept(p)
       /\ (InsertStep /\ impl \in {"QuadTreeVec", "OctaTree"}) =>
            \A j \in ArenaLeaves(Arena) :
                (ArenaMergeCase /\ j = ArenaWalkLeaf) \/ ArenaLeafKept(j)
       /\ TwoInDifferentQuadrants(impl', inserted') => TwoLeavesUnderRoot(qt', inserted')]_vars

(* a stored leaf was pushed three levels down by the insert of (2,2) next  *)
(* to (4,4), and both bodies are leaves                                    *)
C19_Witness ==
    /\ impl = "QuadTree"
    /\ Len(inserted) = 2
    /\ inserted[1].position = P2(4, 4)
    /\ inserted[2].position = P2(2, 2)
    /\ \E x \in QtStoredLeaves(qt) :
          /\ Len(x) >= 3
          /\ qt[x].mass = inserted[1].mass
          /\ qt[x].position = VScale(inserted[1].position, inserted[1].mass)


(*********************************** C20 ***********************************)
(* a step of simulation_step: no caller's write happens in it *)
StepOfTick == mutations' = mutations /\ Len(rigid_bodies') = Len(rigid_bodies)

IntegrationStep == pc = "update_node_position" /\ pc' = "idle"

(* C21: with a negative freeze_threshold no body is ever fixed; with a     *)
(* non-negative one a body that is not fixed becomes fixed in a tick       *)
(* exactly when its speed after damping is below the threshold             *)
C21_NegativeThresholdNeverFreezes ==
    [][/\ RLt(cfg.freeze_thresh, R(0)) =>
            \A i \in DOMAIN rigid_bodies' : ~rigid_bodies'[i].fixed
       /\ (IntegrationStep /\ ~RLt(cfg.freeze_thresh, R(0))) =>
            \A i \in DOMAIN rigid_bodies :
                ~rigid_bodies[i].fixed =>
                    (rigid_bodies'[i].fixed <=>
                         RLt(length(VScale(rigid_bodies[i].velocity, cfg.damping)),
                             cfg.freeze_thresh))]_vars

(* a Simulator that never freezes has taken a step and a body of it is at  *)
(* rest, not fixed                                                         *)
C21_Witness ==
    /\ RLt(cfg.freeze_thresh, R(0))
    /\ ticks > 0
    /\ \E i \in DOMAIN rigid_bodies :
          /\ rigid_bodies[i].velocity = ZERO2
          /\ ~rigid_bodies[i].fixed


(*********************************** C22 ***********************************)
REq(a, b) == ~RLt(a, b) /\ ~RLt(b, a)
Bit0(q) == q % 2 = 1
Bit1(q) == (q \div 2) % 2 = 1

(* C22: for the box and the two positions the push-down loop classifies,   *)
(* bit 0 of section is set iff the position's x is above the center's x    *)
(* and bit 1 iff its y is above the center's y; a position level with the  *)
(* center on an axis gets the lower quadrant on that axis                  *)
C22_SectionBits ==
    split.pc = "loop" =>
        \A p \in {split.position, split.l_pos} :
            LET sec == section(split.boundary, p)
                center == split.boundary.center
            IN  /\ Bit0(sec) <=> RLt(center[1], p[1])
                /\ Bit1(sec) <=> RLt(center[2], p[2])
                /\ REq(p[1], center[1]) => ~Bit0(sec)
                /\ REq(p[2], center[2]) => ~Bit1(sec)

(* the loop classifies a position that is level with the center of the box *)
(* on both axes, and one that is above it on both                          *)
C22_Witness ==
    /\ split.pc = "loop"
    /\ REq(split.position[1], split.boundary.center[1])
    /\ REq(split.position[2], split.boundary.center[2])
    /\ RLt(split.boundary.center[1], split.l_pos[1])
    /\ RLt(split.boundary.center[2], split.l_pos[2])

(*********************************** C23 ***********************************)
(* C23: for the box the push-down loop is in and every q in 0..3, the box  *)
(* sub_quadrant(q) has half the width and half the height, and its center  *)
(* is the center shifted by a quarter of the width on x, up iff bit 0 of q *)
(* is set, and by a quarter of the height on y, up iff bit 1 is set        *)
C23_SubQuadrantGeometry ==
    split.pc = "loop" =>
        \A q \in 0..3 :
            LET bb == split.boundary
                child == sub_quadrant(bb, q)
                dx == RSub(child.center[1], bb.center[1])
                dy == RSub(child.center[2], bb.center[2])
            IN  /\ REq(RMul(R(2), child.width), bb.width)
                /\ REq(RMul(R(2), child.height), bb.height)
                /\ REq(RMul(R(4), dx), IF Bit0(q) THEN bb.width ELSE RNeg(bb.width))
                /\ REq(RMul(R(4), dy), IF Bit1(q) THEN bb.height ELSE RNeg(bb.height))

(* the loop is in a box below the root, whose center is not the origin *)
C23_Witness ==
    /\ split.pc = "loop"
    /\ split.depth = 2
    /\ ~REq(split.boundary.center[1], R(0))


(*********************************** C24 ***********************************)
(* the inserted positions coincide exactly or are EPSILON or more apart *)
Separated ==
    \A i, j \in DOMAIN inserted :
        \/ inserted[i].position = inserted[j].position
        \/ ~RLt(distance_squared(inserted[i].position, inserted[j].position), EPSILON_SQ)

(* C24: in the OctaTree, after inserts of positive masses at positions     *)
(* inside the root box that coincide or are EPSILON or more apart, every   *)
(* reachable Root entry has mass equal to the sum of the masses of the     *)
(* leaves beneath it and pos equal to the sum of mass * position over them *)
C24_OctaTreeSums ==
    (impl = "OctaTree" /\ Separated) =>
        \A j \in ArenaRoots(ot) :
            /\ ot.children[j + 1].mass = ArenaMassBeneath(ot, j)
            /\ ot.children[j + 1].pos = ArenaMomentBeneath(ot, j, ZERO3)

(* three bodies: two coincide and share a leaf, the third was parted from  *)
(* them three levels down                                                  *)
C24_Witness ==
    /\ impl = "OctaTree"
    /\ Separated
    /\ Len(inserted) = 3
    /\ Cardinality(ArenaRoots(ot)) >= 3
    /\ Cardinality(ArenaLeaves(ot)) = 2


(*********************************** C25 ***********************************)
(* the emitted entries, as positions of the returned vector, that are leaf *)
(* l or a Root above it                                                    *)
Covering(l) == {k \in DOMAIN nodes : l \in Reach(Arena.children, nodes[k])}
EmittedMass == SumOver(DOMAIN nodes, [k \in DOMAIN nodes |-> Arena.children[nodes[k] + 1].mass])

(* C25: in the arena trees, for any tree, query point and theta, every     *)
(* reachable leaf is emitted by stack or lies beneath one emitted Root,    *)
(* exactly one of the two; no unreachable entry is emitted; the masses of  *)
(* the emitted entries sum to the mass of the root entry                   *)
C25_StackCoversOnce ==
    (impl \in {"QuadTreeVec", "OctaTree"} /\ query # NoQuery) =>
        /\ \A k \in DOMAIN nodes : nodes[k] \in ReachAll(Arena)
        /\ \A l \in ArenaLeaves(Arena) : Cardinality(Covering(l)) = 1
        /\ Arena.children # <<>> => EmittedMass = Arena.children[Arena.root + 1].mass

(* a query that got a Root in place of the leaves beneath it, and a leaf,  *)
(* from a tree whose vector holds an entry no Root refers to               *)
C25_Witness ==
    /\ impl \in {"QuadTreeVec", "OctaTree"}
    /\ query # NoQuery
    /\ \E k \in DOMAIN nodes : Arena.children[nodes[k] + 1].kind = "Root"
    /\ \E k \in DOMAIN nodes : Arena.children[nodes[k] + 1].kind = "Leaf"
    /\ Cardinality(ReachAll(Arena)) < Len(Arena.children)


(*********************************** C26 ***********************************)
(* the leaves whose stored position is the position of the query *)
QueriedLeaves ==
    {l \in QtLeaves : QuadTree_position(qt[l]) = query.position}

(* C26: when the pointer QuadTree is queried at the stored position of a   *)
(* body, with theta in [0, 1], no emitted node is the leaf of that body or *)
(* an internal node above it, whose summary holds the body's own mass      *)
C26_NoSelfInteraction ==
    (impl = "QuadTree" /\ query # NoQuery) =>
        \A l \in QueriedLeaves :
            \A k \in DOMAIN nodes : ~IsPrefix(nodes[k], l)


(*********************************** C27 ***********************************)
(* the workers of the step in flight: K of them for the n bodies their     *)
(* private buffers were sized for; worker t (from 1) has the indices from  *)
(* the end of worker t - 1 up to its own end_index                         *)
WorkerCount == Len(workers)
SpawnNodeCount == Len(workers[1].force_vec)
RangeOf(t) ==
    {i \in 0..(SpawnNodeCount - 1) :
        /\ i >= (IF t = 1 THEN 0 ELSE workers[t - 1].end_index)
        /\ i < workers[t].end_index}

(* C27: the K = min(n, max_threads) worker ranges begin at t * (n / K),    *)
(* follow one another without gap or overlap and cover 0..n-1, only the    *)
(* last one taking the remainder; a worker computes forces for the bodies  *)
(* of its range only, so a slot of the accumulator gets a contribution     *)
(* that is not zero from at most one worker                                *)
C27_WorkerPartition ==
    workers # <<>> =>
        /\ WorkerCount = Min(SpawnNodeCount, cfg.max_threads)
        /\ workers[WorkerCount].end_index = SpawnNodeCount
        /\ \A t \in DOMAIN workers :
              /\ (IF t = 1 THEN 0 ELSE workers[t - 1].end_index) =
                     (t - 1) * (SpawnNodeCount \div WorkerCount)
              /\ t < WorkerCount =>
                     Cardinality(RangeOf(t)) = SpawnNodeCount \div WorkerCount
              /\ RangeOf(t) # {}
              /\ \A i \in 0..(SpawnNodeCount - 1) :
                     workers[t].force_vec[i + 1] # ZERO2 => i \in RangeOf(t)
        /\ \A i \in 0..(SpawnNodeCount - 1) :
              Cardinality({t \in DOMAIN workers : i \in RangeOf(t)}) = 1

(* two workers share three bodies (one and two), both have finished and    *)
(* each has computed a force                                               *)
C27_Witness ==
    /\ Len(workers) = 2
    /\ SpawnNodeCount = 3
    /\ \A t \in DOMAIN workers :
          /\ workers[t].pc = "done"
          /\ \E i \in RangeOf(t) : workers[t].force_vec[i + 1] # ZERO2

(*********************************** C28 ***********************************)
(* the step has left calculate_forces: it applies the forces, integrates,  *)
(* or has returned                                                         *)
PastCalculateForces ==
    pc \in {"apply_node_force", "update_node_position", "idle"}

(* C28: workers exist only once the tree of the tick is built; when the    *)
(* step applies the accumulator, and from then on until it has returned,   *)
(* every worker it spawned has merged its slice and has been joined, and   *)
(* the spring pass it started has gone through every spring and dropped    *)
(* the guard of the accumulator                                            *)
C28_TickOrdering ==
    /\ workers # <<>> => quadtree # NoTree
    /\ PastCalculateForces =>
          /\ \A t \in DOMAIN workers : workers[t].pc = "done"
          /\ join_i = Len(workers)
          /\ (workers # <<>> /\ cfg.spring) => spring_i = Len(springs)
          /\ f_vec_lock = None

(* a step with two workers and a spring is about to apply its forces *)
C28_Witness ==
    /\ pc = "apply_node_force"
    /\ Len(workers) = 2
    /\ cfg.spring
    /\ spring_i > 0
    /\ \E t \in DOMAIN workers : \E i \in DOMAIN f_vec : workers[t].force_vec[i] # ZERO2

(*********************************** C29 ***********************************)
(* C29: a started simulation_step returns and releases the step lock, so   *)
(* that a mutation waiting for it proceeds: the step never unwinds with    *)
(* the step lock held, which would leave the lock poisoned for good (no    *)
(* operation of the Simulator clears it, and insert_node then panics on    *)
(* simulation_thread_lock.write().unwrap() instead of proceeding)          *)
C29_StepReleasesLock ==
    [][simulation_thread_lock = "ticker" =>
           simulation_thread_lock' \in {"ticker", None}]_vars

(*********************************** C30 ***********************************)
(* the arena entries that are a Root *)
RootEntries(t) == {j \in DOMAIN t.children : t.children[j].kind = "Root"}

(* C30: the first insert into an empty QuadTreeVec appends exactly one     *)
(* entry; after a second insert into another root quadrant entry 0 is a    *)
(* Root whose slot for the second body's quadrant holds index 1 and whose  *)
(* slot for the first body's quadrant holds index 2; and the arena holds   *)
(* one entry per inserted body plus one entry per Root created             *)
C30_ArenaAllocation ==
    impl = "QuadTreeVec" =>
        /\ Len(inserted) = 1 => Len(qtv.children) = 1
        /\ (/\ Len(inserted) = 2
            /\ section(qtv.boundary, inserted[1].position) #
                   section(qtv.boundary, inserted[2].position)) =>
               /\ qtv.children[1].kind = "Root"
               /\ qtv.children[1].indices[section(qtv.boundary, inserted[2].position) + 1] = 1
               /\ qtv.children[1].indices[section(qtv.boundary, inserted[1].position) + 1] = 2
        /\ Len(qtv.children) = Len(inserted) + Cardinality(RootEntries(qtv))

====
